---- MODULE Spec2Model ----
(***************************************************************************)
(* Model of src/src/predict.py: the per-file detection pipeline            *)
(* analyzeFile -> predict -> write_results.                                *)
(*                                                                         *)
(* Probabilities and harmonic ratios are fixed-point integers in units of  *)
(* 1/1000 (0.99 is 990, 0.1 is 100), so that the comparisons of the code   *)
(* (>=, >) are exact.  Class labels are the 0-based indices np.argmax      *)
(* returns.                                                                *)
(***************************************************************************)
EXTENDS Integers, Sequences, FiniteSets

(* ------------------------------------------------------------------ *)
(* Bounds of the model                                                 *)
(* ------------------------------------------------------------------ *)

\* longest clip list of a file that is explored
MaxClips == 3

\* largest batch_size handed to analyzeFile that is explored
MaxBatch == 2

(* ------------------------------------------------------------------ *)
(* Program constants                                                   *)
(* ------------------------------------------------------------------ *)

\* predict(..., threshold=0.99), in 1/1000
threshold == 990

\* idx_end = idx_begin + 3: the duration the code gives every clip
clip_duration == 3

\* hr_list.append(0): the harmonic ratio recorded when the gate skips compute_hr
skipped_hr == 0

\* header = ["start_detection", "end_detection", "label", "confidence", "hr"]
header == <<"start_detection", "end_detection", "label", "confidence", "hr">>

(* ------------------------------------------------------------------ *)
(* Inputs: the clips AudioList().get_processed_list(file_path) yields  *)
(* ------------------------------------------------------------------ *)

\* The value a raised exception is modelled by where a number is expected.
Raise == -1

\* The sentinel harmonic ratio of a clip that cannot be framed.
Sentinel == 0

\* A clip is described by what the external collaborators return for it:
\*   probs     np.exp(model(tensor)) for the clip, one entry per class (1/1000)
\*   hr        the mean harmonic ratio of its 1 s frames (1/1000)
\*   short     the clip is shorter than one 1 s analysis frame
\*   shape_ok  the clip has the shape the model expects (model(tensor) raises
\*             otherwise)
ClipKinds ==
    { [probs |-> <<5, 0, 995>>,   hr |-> 150, short |-> FALSE, shape_ok |-> TRUE],
      [probs |-> <<10, 990, 0>>,  hr |-> 100, short |-> FALSE, shape_ok |-> TRUE],
      [probs |-> <<11, 0, 989>>,  hr |-> 150, short |-> FALSE, shape_ok |-> TRUE],
      [probs |-> <<995, 5, 0>>,   hr |-> 150, short |-> FALSE, shape_ok |-> TRUE],
      [probs |-> <<500, 300, 200>>, hr |-> 150, short |-> FALSE, shape_ok |-> TRUE],
      [probs |-> <<5, 0, 995>>,   hr |-> 50,  short |-> FALSE, shape_ok |-> TRUE],
      [probs |-> <<5, 0, 995>>,   hr |-> 150, short |-> TRUE,  shape_ok |-> TRUE],
      [probs |-> <<5, 0, 995>>,   hr |-> 150, short |-> FALSE, shape_ok |-> FALSE] }

\* the min_hr values analyzeFile is called with (default 0.1)
MinHrs == {-50, 0, 100}

\* the min_conf values analyzeFile is called with (default 0.99)
MinConfs == {900, 990}

\* the batch_size values analyzeFile is called with (default 1)
BatchSizes == 1..MaxBatch

ClipLists == UNION { [1..n -> ClipKinds] : n \in 0..MaxClips }

VARIABLES
    list_preds,      \* the clips of the file, in file order
    min_hr,          \* analyzeFile argument
    min_conf,        \* analyzeFile argument
    batch_size,      \* analyzeFile argument
    cwd_exists,      \* os.path.exists(outname): a file of that name in the cwd
    artifact,        \* the file at outpath (SNOWMOBILE_RESULTS/<name>_ANALYZED.csv)
    pc,              \* position of the program
    pos,             \* clips the DataLoader has handed out so far
    proba_list,      \* predict: proba_list
    hr_list,         \* predict: hr_list
    verified,        \* per entry of hr_list: compute_hr was invoked for it
    k,               \* write_results: pairs of the zip consumed so far
    idx_begin,       \* write_results: idx_begin
    rows_for_csv,    \* write_results: rows_for_csv
    writes,          \* open(outname, "w") calls of the current analyzeFile call
    notices          \* "No detection has been made" messages of the current call

vars == <<list_preds, min_hr, min_conf, batch_size, cwd_exists, artifact, pc, pos,
          proba_list, hr_list, verified, k, idx_begin, rows_for_csv, writes, notices>>

params == <<list_preds, min_hr, min_conf, batch_size, cwd_exists>>

(* ------------------------------------------------------------------ *)
(* Pure helpers                                                        *)
(* ------------------------------------------------------------------ *)

Min2(a, b) == IF a < b THEN a ELSE b

\* conf.max()
max_of(conf) == CHOOSE m \in { conf[i] : i \in DOMAIN conf } :
                    \A i \in DOMAIN conf : conf[i] <= m

\* np.argmax(conf, axis=0): the first index of the maximum, 0-based
argmax(conf) == (CHOOSE i \in DOMAIN conf :
                    /\ conf[i] = max_of(conf)
                    /\ \A j \in DOMAIN conf : conf[j] = max_of(conf) => i <= j) - 1

\* the file at outpath does not exist
NoFile == [exists |-> FALSE, header |-> <<>>, rows |-> <<>>]

\* with open(outname, "w"): writer.writerow(header); writer.writerows(rows)
written_file(rows) == [exists |-> TRUE, header |-> header, rows |-> rows]

(* ------------------------------------------------------------------ *)
(* compute_hr                                                          *)
(* ------------------------------------------------------------------ *)

\* AudioSignal.harmonic_ratio followed by the mean, for one clip: a clip too
\* short to be framed resolves to the sentinel.
harmonic_ratio(clip) == IF clip.short THEN Sentinel ELSE clip.hr

\* a compute_hr that lets the framing error of a short clip escape
compute_hr_raising(array) ==
    { IF array[i].short THEN Raise ELSE array[i].hr : i \in DOMAIN array }

\* compute_hr(np.array(array)): the values the call can return.  With one clip
\* in the batch it is that clip's harmonic ratio; what the estimator makes of a
\* batch of several clips is not fixed by the code, so every clip's value is
\* possible.
compute_hr(array) == { harmonic_ratio(array[i]) : i \in DOMAIN array }

(* ------------------------------------------------------------------ *)
(* predict                                                             *)
(* ------------------------------------------------------------------ *)

\* a gate that excludes the threshold itself
should_verify_strict(max_value) == max_value > threshold

\* if max_value >= threshold
should_verify(max_value) == max_value >= threshold

\* the next item of DataLoader(list_preds, batch_size=batch_size)
next_batch == SubSeq(list_preds, pos + 1, Min2(pos + batch_size, Len(list_preds)))

\* output = np.exp(model(tensor)...): one row of probabilities per clip of the batch
model_output(array) == [i \in DOMAIN array |-> array[i].probs]

(* ------------------------------------------------------------------ *)
(* write_results                                                       *)
(* ------------------------------------------------------------------ *)

\* a row condition with inclusive thresholds
qualifies_inclusive(label, hr, max_value) ==
    label # 0 /\ hr >= min_hr /\ max_value >= min_conf

\* a row condition that forgets the harmonic ratio
qualifies_no_hr(label, hr, max_value) ==
    label # 0 /\ max_value > min_conf

\* if label != 0 and hr > min_hr and max_value > min_conf
qualifies(label, hr, max_value) ==
    label # 0 /\ hr > min_hr /\ max_value > min_conf

\* rows_for_csv.insert(0, item_properties)
add_row_front(rows, item_properties) == <<item_properties>> \o rows

\* rows_for_csv.append(item_properties)
add_row(rows, item_properties) == Append(rows, item_properties)

\* an idx_begin that advances only when a row was emitted
advance_if_emitted(begin, end, emitted) == IF emitted THEN end ELSE begin

\* idx_begin = idx_end, outside the if
advance(begin, end, emitted) == end

\* item_properties = [idx_begin, idx_end, label, max_value, hr]
item_row(begin, end, label, max_value, hr) ==
    [start_detection |-> begin, end_detection |-> end, label |-> label,
     confidence |-> max_value, hr |-> hr]

\* zip(prob_audioclip_array, hr_array) stops at the shorter list
zip_len == Min2(Len(proba_list), Len(hr_list))

(* ------------------------------------------------------------------ *)
(* Initial state                                                       *)
(* ------------------------------------------------------------------ *)

Init ==
    /\ list_preds \in ClipLists
    /\ min_hr \in MinHrs
    /\ min_conf \in MinConfs
    /\ batch_size \in BatchSizes
    /\ cwd_exists \in BOOLEAN
    /\ artifact = NoFile
    /\ pc = "idle"
    /\ pos = 0
    /\ proba_list = <<>>
    /\ hr_list = <<>>
    /\ verified = <<>>
    /\ k = 0
    /\ idx_begin = 0
    /\ rows_for_csv = <<>>
    /\ writes = 0
    /\ notices = 0

(* ------------------------------------------------------------------ *)
(* analyzeFile                                                         *)
(* ------------------------------------------------------------------ *)

AtRest == pc \in {"idle", "finished", "skipped", "failed"}

\* if os.path.exists(outname): print("File ... already exists")
AnalyzeFileSkip ==
    /\ AtRest
    /\ cwd_exists
    /\ pc' = "skipped"
    /\ UNCHANGED <<params, artifact, pos, proba_list, hr_list, verified, k,
                   idx_begin, rows_for_csv, writes, notices>>

\* else: list_preds = ...; predLoader = DataLoader(...); predict(...) is entered
AnalyzeFileRun ==
    /\ AtRest
    /\ ~cwd_exists
    /\ pc' = "predict"
    /\ pos' = 0
    /\ proba_list' = <<>>
    /\ hr_list' = <<>>
    /\ verified' = <<>>
    /\ k' = 0
    /\ idx_begin' = 0
    /\ rows_for_csv' = <<>>
    /\ writes' = 0
    /\ notices' = 0
    /\ UNCHANGED <<params, artifact>>

\* one iteration of `for array in testLoader` in which model(tensor) raises
PredictModelRaises ==
    /\ pc = "predict"
    /\ pos < Len(list_preds)
    /\ \E i \in DOMAIN next_batch : ~next_batch[i].shape_ok
    /\ pc' = "failed"
    /\ UNCHANGED <<params, artifact, pos, proba_list, hr_list, verified, k,
                   idx_begin, rows_for_csv, writes, notices>>

\* one iteration of `for array in testLoader` whose confidence gate is passed
PredictVerify ==
    /\ pc = "predict"
    /\ pos < Len(list_preds)
    /\ \A i \in DOMAIN next_batch : next_batch[i].shape_ok
    /\ LET array == next_batch
           output == model_output(array)
           max_value == max_of(output[1])
       IN /\ should_verify(max_value)
          /\ \E hr \in compute_hr(array) :
                IF hr = Raise
                THEN /\ pc' = "failed"
                     /\ UNCHANGED <<pos, proba_list, hr_list, verified>>
                ELSE /\ pc' = "predict"
                     /\ proba_list' = Append(proba_list, output[1])
                     /\ hr_list' = Append(hr_list, hr)
                     /\ verified' = Append(verified, TRUE)
                     /\ pos' = pos + Len(array)
    /\ UNCHANGED <<params, artifact, k, idx_begin, rows_for_csv, writes, notices>>

\* one iteration of `for array in testLoader` whose confidence gate is not passed
PredictSkip ==
    /\ pc = "predict"
    /\ pos < Len(list_preds)
    /\ \A i \in DOMAIN next_batch : next_batch[i].shape_ok
    /\ LET array == next_batch
           output == model_output(array)
           max_value == max_of(output[1])
       IN /\ ~should_verify(max_value)
          /\ proba_list' = Append(proba_list, output[1])
          /\ hr_list' = Append(hr_list, skipped_hr)
          /\ verified' = Append(verified, FALSE)
          /\ pos' = pos + Len(array)
    /\ pc' = "predict"
    /\ UNCHANGED <<params, artifact, k, idx_begin, rows_for_csv, writes, notices>>

\* return proba_list, hr_list; write_results is entered
PredictReturn ==
    /\ pc = "predict"
    /\ pos >= Len(list_preds)
    /\ pc' = "write"
    /\ k' = 0
    /\ idx_begin' = 0
    /\ rows_for_csv' = <<>>
    /\ UNCHANGED <<params, artifact, pos, proba_list, hr_list, verified, writes, notices>>

\* one iteration of the loop of write_results: the row, the offset, and the
\* write or the notice, which are inside the loop body
WriteStep ==
    /\ pc = "write"
    /\ k < zip_len
    /\ LET conf == proba_list[k + 1]
           hr == hr_list[k + 1]
           idx_end == idx_begin + clip_duration
           label == argmax(conf)
           max_value == max_of(conf)
           emitted == qualifies(label, hr, max_value)
           rows == IF emitted
                   THEN add_row(rows_for_csv,
                                item_row(idx_begin, idx_end, label, max_value, hr))
                   ELSE rows_for_csv
       IN /\ rows_for_csv' = rows
          /\ idx_begin' = advance(idx_begin, idx_end, emitted)
          /\ IF Len(rows) > 0
             THEN /\ artifact' = written_file(rows)
                  /\ writes' = writes + 1
                  /\ notices' = notices
             ELSE /\ artifact' = artifact
                  /\ writes' = writes
                  /\ notices' = notices + 1
    /\ k' = k + 1
    /\ pc' = "write"
    /\ UNCHANGED <<params, pos, proba_list, hr_list, verified>>

\* the loop of write_results is exhausted; analyzeFile prints "Finished ..."
WriteReturn ==
    /\ pc = "write"
    /\ k >= zip_len
    /\ pc' = "finished"
    /\ UNCHANGED <<params, artifact, pos, proba_list, hr_list, verified, k,
                   idx_begin, rows_for_csv, writes, notices>>

Next ==
    \/ AnalyzeFileSkip
    \/ AnalyzeFileRun
    \/ PredictModelRaises
    \/ PredictVerify
    \/ PredictSkip
    \/ PredictReturn
    \/ WriteStep
    \/ WriteReturn

Spec == Init /\ [][Next]_vars

(* ------------------------------------------------------------------ *)
(* Properties                                                          *)
(* ------------------------------------------------------------------ *)

\* the i-th pair (1-based) of the zip passes the three gates of a Detection
Gated(i) ==
    /\ argmax(proba_list[i]) # 0
    /\ hr_list[i] > min_hr
    /\ max_of(proba_list[i]) > min_conf

\* a row of rows_for_csv starts at the offset of the i-th pair
HasRow(i) ==
    \E j \in DOMAIN rows_for_csv :
        rows_for_csv[j].start_detection = (i - 1) * clip_duration

\* the clips the DataLoader put in the i-th batch
BatchOf(i) ==
    SubSeq(list_preds, (i - 1) * batch_size + 1,
           Min2(i * batch_size, Len(list_preds)))

\* the report of the first n pairs: one row per gated pair, at its own offset
RECURSIVE ReportOf(_)
ReportOf(n) ==
    IF n = 0 THEN <<>>
    ELSE IF Gated(n)
         THEN Append(ReportOf(n - 1),
                     [start_detection |-> (n - 1) * clip_duration,
                      end_detection |-> n * clip_duration,
                      label |-> argmax(proba_list[n]),
                      confidence |-> max_of(proba_list[n]),
                      hr |-> hr_list[n]])
         ELSE ReportOf(n - 1)

\* C1: write_results has a row for the i-th pair it has consumed if and only
\* if the pair's label is not 0, its harmonic ratio is strictly above min_hr
\* and its confidence is strictly above min_conf.
C1_EmitIff == \A i \in 1..k : HasRow(i) <=> Gated(i)

\* C1 witness: a pair was emitted, and a pair with a foreground label and
\* enough confidence whose harmonic ratio equals min_hr was not.
C1_Witness ==
    /\ pc = "finished"
    /\ \E i \in 1..k : HasRow(i)
    /\ \E i \in 1..k :
          /\ argmax(proba_list[i]) # 0
          /\ max_of(proba_list[i]) > min_conf
          /\ hr_list[i] = min_hr
          /\ ~HasRow(i)

\* C2: classification and writing never run against an artifact that already
\* exists: while predict runs, and in write_results before its first write,
\* the destination is absent.
C2_IdempotentSkip ==
    (pc = "predict" \/ (pc = "write" /\ writes = 0)) => ~artifact.exists

\* C3: no write to the artifact happens while pairs are still left to be
\* gated.
C3_NoPartialArtifact == (pc = "write" /\ k < zip_len) => writes = 0

\* C4: a completed write_results either wrote the artifact (header and the
\* qualifying rows) and gave no notice, or gave the notice and wrote nothing.
C4_ExactlyOneOutcome ==
    pc = "finished" =>
        \/ /\ Len(rows_for_csv) > 0
           /\ writes > 0
           /\ artifact = written_file(rows_for_csv)
           /\ notices = 0
        \/ /\ Len(rows_for_csv) = 0
           /\ notices > 0
           /\ writes = 0

\* C5: for every item predict has processed, compute_hr was invoked if and
\* only if the maximum probability recorded for the item is >= threshold, and
\* an item for which it was not invoked has harmonic ratio 0.
C5_ConfidenceGate ==
    \A i \in DOMAIN hr_list :
        /\ verified[i] <=> max_of(proba_list[i]) >= threshold
        /\ ~verified[i] => hr_list[i] = 0

\* C5 witness: an item exactly at the threshold was verified and an item just
\* below it was not.
C5_Witness ==
    /\ \E i \in DOMAIN hr_list : max_of(proba_list[i]) = threshold /\ verified[i]
    /\ \E i \in DOMAIN hr_list :
          max_of(proba_list[i]) = threshold - 1 /\ ~verified[i] /\ hr_list[i] = 0

\* C6: once predict has returned, both result lists have one entry per clip
\* of the file, the i-th entry belonging to the i-th clip.
C6_OnePerClip ==
    pc \in {"write", "finished"} =>
        /\ Len(proba_list) = Len(list_preds)
        /\ Len(hr_list) = Len(list_preds)
        /\ \A i \in DOMAIN proba_list : proba_list[i] = list_preds[i].probs

\* C7: the rows are exactly the gated pairs, the row of the i-th pair
\* (0-indexed) spanning i * clip_duration to (i+1) * clip_duration whatever
\* happened to the earlier pairs; nothing is merged, so there are as many rows
\* as gated pairs and each spans one clip duration.
C7_Offsets ==
    /\ rows_for_csv = ReportOf(k)
    /\ Len(rows_for_csv) = Cardinality({ i \in 1..k : Gated(i) })
    /\ \A j \in DOMAIN rows_for_csv :
          rows_for_csv[j].end_detection - rows_for_csv[j].start_detection
              = clip_duration

\* C7 witness: the first pair was not emitted, the second and third were, with
\* the same label, and stay two adjacent rows.
C7_Witness ==
    /\ pc = "finished"
    /\ Len(rows_for_csv) = 2
    /\ rows_for_csv[1].start_detection = clip_duration
    /\ rows_for_csv[2].start_detection = rows_for_csv[1].end_detection
    /\ rows_for_csv[1].label = rows_for_csv[2].label

\* start_detection never decreases from one row to the next
Chronological(rows) ==
    \A j \in 1..(Len(rows) - 1) :
        rows[j].start_detection <= rows[j + 1].start_detection

\* C8: the rows held by write_results and the rows of the artifact are in
\* chronological order.
C8_Chronological == Chronological(rows_for_csv) /\ Chronological(artifact.rows)

\* C8 witness: an artifact of several rows has been written.
C8_Witness == pc = "finished" /\ Len(artifact.rows) >= 2

FromVerified(rows) ==
    \A j \in DOMAIN rows :
        LET i == (rows[j].start_detection \div clip_duration) + 1
        IN /\ i \in DOMAIN verified
           /\ verified[i]
           /\ max_of(proba_list[i]) >= threshold

\* C10: with min_hr >= 0, whatever min_conf, every row held by write_results
\* and every row of the artifact it writes comes from an item whose maximum
\* probability is >= threshold and whose harmonic ratio was computed.
C10_SkippedNeverDetected ==
    min_hr >= 0 =>
        /\ FromVerified(rows_for_csv)
        /\ pc \in {"write", "finished"} => FromVerified(artifact.rows)

\* C10 witness: min_conf is below the gate threshold, an item skipped by the
\* gate has a foreground label and a confidence above min_conf, and the
\* artifact was written without it.
C10_Witness ==
    /\ pc = "finished"
    /\ min_hr >= 0
    /\ min_conf < threshold
    /\ Len(artifact.rows) >= 1
    /\ \E i \in 1..k :
          /\ ~verified[i]
          /\ argmax(proba_list[i]) # 0
          /\ max_of(proba_list[i]) > min_conf
          /\ ~HasRow(i)

====
